---------------------------- MODULE Spec2Model ----------------------------
(***************************************************************************)
(* Model of src/script.js: the MIL-STD-704 power quality compliance        *)
(* checker page.  The state is the DOM state the script reads and writes   *)
(* (the bus-type select, the seven measurement inputs, the body's ac-mode  *)
(* class, the steady-voltage unit label and hint, the overall status, the  *)
(* summary block and the checklist); the actions are the event handlers    *)
(* bound at lines 353-356 plus the user typing into the inputs.  The click *)
(* handler of line 357 (window.print) touches none of this state and is    *)
(* left out.                                                               *)
(*                                                                         *)
(* Text is a sequence of characters, each a one-character string; the      *)
(* white space characters from U+2000 on, which a string of this language  *)
(* cannot hold, are written by code point, "U+2000".  A JavaScript number  *)
(* is the double nearest to a decimal, digits * 10^e, whose digits are     *)
(* kept in full: a text of any length is read as Number() reads it.        *)
(***************************************************************************)
EXTENDS Integers, Sequences, FiniteSets, TLC

(***************************************************************************)
(* Decimal digit sequences, most significant digit first                   *)
(***************************************************************************)

\* ds without its leading zeros; <<>> is zero
StripZeros(ds) ==
    IF \A i \in 1..Len(ds) : ds[i] = 0
    THEN <<>>
    ELSE SubSeq(ds,
                CHOOSE i \in 1..Len(ds) :
                    ds[i] # 0 /\ \A j \in 1..(i - 1) : ds[j] = 0,
                Len(ds))

\* the digits of a natural number
RECURSIVE NatDigits(_)
NatDigits(n) == IF n = 0 THEN <<>> ELSE NatDigits(n \div 10) \o <<n % 10>>

\* the natural number of at most nine digits
RECURSIVE NatOf(_)
NatOf(ds) ==
    IF ds = <<>> THEN 0
    ELSE 10 * NatOf(SubSeq(ds, 1, Len(ds) - 1)) + ds[Len(ds)]

\* the digit of ds at place i counted from the left, 0 beyond its ends
DigitAt(ds, i) == IF 1 <= i /\ i <= Len(ds) THEN ds[i] ELSE 0

\* 2 * ds: a digit doubled takes a carry iff the digit after it is 5 or more
Double(ds) ==
    StripZeros([i \in 1..(Len(ds) + 1) |->
                   ((2 * DigitAt(ds, i - 1)) % 10)
                   + (IF DigitAt(ds, i) >= 5 THEN 1 ELSE 0)])

\* 5 * ds, the half of 10 * ds: a digit halved takes 5 iff the digit before
\* it is odd
TimesFive(ds) ==
    StripZeros([i \in 1..(Len(ds) + 1) |->
                   (DigitAt(ds, i) \div 2)
                   + (IF DigitAt(ds, i - 1) % 2 = 1 THEN 5 ELSE 0)])

\* ds * 2^n and ds * 5^n, by halves of n
RECURSIVE Doubled(_, _)
Doubled(ds, n) ==
    IF ds = <<>> \/ n = 0 THEN ds
    ELSE IF n = 1 THEN Double(ds)
    ELSE Doubled(Doubled(ds, n \div 2), n - n \div 2)

RECURSIVE TimesFiveTo(_, _)
TimesFiveTo(ds, n) ==
    IF ds = <<>> \/ n = 0 THEN ds
    ELSE IF n = 1 THEN TimesFive(ds)
    ELSE TimesFiveTo(TimesFiveTo(ds, n \div 2), n - n \div 2)

\* the sum of the digits of a and b at place i counted from the right
SumAt(a, b, i) == DigitAt(a, Len(a) + 1 - i) + DigitAt(b, Len(b) + 1 - i)

\* the carry into place i: a place below it overflows and every place between
\* passes the carry on
CarryInto(a, b, i) ==
    \E j \in 1..(i - 1) :
        SumAt(a, b, j) >= 10 /\ \A k \in (j + 1)..(i - 1) : SumAt(a, b, k) = 9

\* a + b
Add(a, b) ==
    StripZeros([i \in 1..(Len(a) + Len(b) + 1) |->
                   (SumAt(a, b, Len(a) + Len(b) + 2 - i)
                    + (IF CarryInto(a, b, Len(a) + Len(b) + 2 - i) THEN 1 ELSE 0)) % 10])

\* ds zero-filled on the left to n digits
Pad(ds, n) == [i \in 1..(n - Len(ds)) |-> 0] \o ds

\* 10^Len(ds) - ds, for ds that does not end in 0
Complement(ds) ==
    [i \in 1..Len(ds) |-> IF i = Len(ds) THEN 10 - ds[i] ELSE 9 - ds[i]]

(***************************************************************************)
(* JavaScript values                                                       *)
(***************************************************************************)

\* null, as returned by parseNumber (lines 75, 77, 79)
Null == [isNull |-> TRUE, neg |-> FALSE, digits |-> <<>>, e |-> 0]

\* a finite number: the double nearest to +-digits * 10^e, the digits with no
\* leading zero (<<>> is +-0)
Num(neg, digits, e) == [isNull |-> FALSE, neg |-> neg, digits |-> digits, e |-> e]

\* x != null (lines 100, 121, 142, 166, 191)
Provided(x) == ~x.isNull

\* the decimal digits * 10^e, digits not empty
Decimal(digits, e) == [digits |-> digits, e |-> e]

\* the power of ten just above a positive decimal
Top(d) == Len(d.digits) + d.e

\* a < b on digit sequences read from the same place
LexLess(a, b) ==
    \E i \in 1..(IF Len(a) >= Len(b) THEN Len(a) ELSE Len(b)) :
        /\ DigitAt(a, i) < DigitAt(b, i)
        /\ \A j \in 1..(i - 1) : DigitAt(a, j) = DigitAt(b, j)

\* a <= b on positive decimals
DecimalLE(a, b) ==
    \/ Top(a) < Top(b)
    \/ Top(a) = Top(b) /\ ~LexLess(b.digits, a.digits)

\* the exponent of the power of two at or below a positive integer
RECURSIVE Log2(_)
Log2(n) == IF n < 2 THEN 0 ELSE 1 + Log2(n \div 2)

RECURSIVE IsPowerOfTwo(_)
IsPowerOfTwo(n) == n = 1 \/ (n % 2 = 0 /\ IsPowerOfTwo(n \div 2))

\* the digits of 5^n: 2^-n is 5^n * 10^-n
PowersOfFive == [n \in 0..54 |-> TimesFiveTo(<<1>>, n)]

\* the doubles at and around a positive integer limit below 2^31 are
\* limit - 2^-below, limit and limit + 2^-above apart
GapAbove(limit) == 52 - Log2(limit)

GapBelow(limit) == IF IsPowerOfTwo(limit) THEN 53 - Log2(limit) ELSE 52 - Log2(limit)

\* the decimal half way from the limit to the double above it, and half way
\* to the double below it: a decimal between the two has the limit, whose
\* significand is even, as its nearest double, both ends included
HalfWayAbove(limit) ==
    Decimal(NatDigits(limit)
              \o Pad(PowersOfFive[GapAbove(limit) + 1], GapAbove(limit) + 1),
            -(GapAbove(limit) + 1))

HalfWayBelow(limit) ==
    Decimal(StripZeros(NatDigits(limit - 1)
              \o Complement(Pad(PowersOfFive[GapBelow(limit) + 1],
                                GapBelow(limit) + 1))),
            -(GapBelow(limit) + 1))

\* x <= limit, a number against a positive integer of the profile table
\* (lines 102, 123, 144, 167, 168, 192, 193)
NumLE(x, limit) ==
    x.neg \/ x.digits = <<>> \/ DecimalLE(Decimal(x.digits, x.e), HalfWayAbove(limit))

\* x >= limit (lines 102, 123)
NumGE(x, limit) ==
    ~x.neg /\ x.digits # <<>> /\ DecimalLE(HalfWayBelow(limit), Decimal(x.digits, x.e))

(***************************************************************************)
(* String to number: trim() and Number() of parseNumber, lines 76-79       *)
(***************************************************************************)

Digits == <<"0", "1", "2", "3", "4", "5", "6", "7", "8", "9">>

IsDigit(c) == \E i \in 1..10 : Digits[i] = c

DigitVal(c) == (CHOOSE i \in 1..10 : Digits[i] = c) - 1

\* the characters U+000B, U+00A0, U+1680 and U+FEFF, which show as nothing
LineTabulation == ""

NoBreakSpace == " "

OghamSpaceMark == " "

ZeroWidthNoBreakSpace == "﻿"

\* WhiteSpace and LineTerminator, which trim() and Number() strip: TAB, LF,
\* FF, CR, SP, the four above, and U+2000 to U+200A, U+2028, U+2029, U+202F,
\* U+205F and U+3000
WhiteSpace ==
    {"\t", "\n", "\f", "\r", " ",
     LineTabulation, NoBreakSpace, OghamSpaceMark, ZeroWidthNoBreakSpace,
     "U+2000", "U+2001", "U+2002", "U+2003", "U+2004", "U+2005",
     "U+2006", "U+2007", "U+2008", "U+2009", "U+200A",
     "U+2028", "U+2029", "U+202F", "U+205F", "U+3000"}

\* String.prototype.trim (line 76): s from its first character that is not
\* white space, and up to its last one
TrimLeft(s) ==
    IF \A i \in 1..Len(s) : s[i] \in WhiteSpace
    THEN <<>>
    ELSE SubSeq(s,
                CHOOSE i \in 1..Len(s) :
                    s[i] \notin WhiteSpace /\ \A j \in 1..(i - 1) : s[j] \in WhiteSpace,
                Len(s))

TrimRight(s) ==
    IF \A i \in 1..Len(s) : s[i] \in WhiteSpace
    THEN <<>>
    ELSE SubSeq(s, 1,
                CHOOSE i \in 1..Len(s) :
                    s[i] \notin WhiteSpace /\ \A j \in (i + 1)..Len(s) : s[j] \in WhiteSpace)

Trim(s) == TrimRight(TrimLeft(s))

\* the number of leading digits of s
DigitRun(s) ==
    IF \A i \in 1..Len(s) : IsDigit(s[i])
    THEN Len(s)
    ELSE (CHOOSE i \in 1..Len(s) :
              ~IsDigit(s[i]) /\ \A j \in 1..(i - 1) : IsDigit(s[j])) - 1

\* the values of a sequence of digit characters, without leading zeros
DigitValues(s) == StripZeros([i \in 1..Len(s) |-> DigitVal(s[i])])

Drop(s, n) == SubSeq(s, n + 1, Len(s))

InfinityText == <<"I", "n", "f", "i", "n", "i", "t", "y">>

\* the sign a text opens with, and the text after it
SignOf(s) == IF s # <<>> /\ Head(s) = "-" THEN -1 ELSE 1

Unsigned(s) == IF s # <<>> /\ Head(s) \in {"+", "-"} THEN Tail(s) ELSE s

\* the digits before the point, and what follows them
IntDigits(body) == SubSeq(body, 1, DigitRun(body))

AfterInt(body) == Drop(body, DigitRun(body))

\* the digits after the point, if there is one, and what follows them
FracDigits(rest) ==
    IF rest # <<>> /\ Head(rest) = "."
    THEN SubSeq(Tail(rest), 1, DigitRun(Tail(rest)))
    ELSE <<>>

AfterFrac(rest) ==
    IF rest # <<>> /\ Head(rest) = "."
    THEN Drop(Tail(rest), DigitRun(Tail(rest)))
    ELSE rest

\* what follows the mantissa is nothing, or e, an optional sign and digits
ExponentOk(tail) ==
    \/ tail = <<>>
    \/ /\ Head(tail) \in {"e", "E"}
       /\ Unsigned(Tail(tail)) # <<>>
       /\ DigitRun(Unsigned(Tail(tail))) = Len(Unsigned(Tail(tail)))

\* an exponent of more than seven digits counts as 10^7, which no text of
\* fewer than nine million characters brings back into the range of a double
ExponentSize(ds) == IF Len(ds) > 7 THEN 10000000 ELSE NatOf(ds)

ExponentValue(tail) ==
    IF tail = <<>> THEN 0
    ELSE SignOf(Tail(tail)) * ExponentSize(DigitValues(Unsigned(Tail(tail))))

NaN == [kind |-> "nan", neg |-> FALSE, digits |-> <<>>, e |-> 0]

\* 2^1024 - 2^970 = (2^54 - 1) * 2^970, half way from the largest double to
\* 2^1024: a decimal of at least this size rounds to Infinity
TwoTo54 == Doubled(<<1>>, 54)

OverflowDigits == Doubled([TwoTo54 EXCEPT ![Len(TwoTo54)] = @ - 1], 970)

\* the double nearest to +-digits * 10^e, tagged "finite" or "infinite"
Rounded(sign, digits, e) ==
    IF digits # <<>> /\ DecimalLE(Decimal(OverflowDigits, 0), Decimal(digits, e))
    THEN [kind |-> "infinite", neg |-> sign < 0, digits |-> <<>>, e |-> 0]
    ELSE [kind |-> "finite", neg |-> sign < 0, digits |-> digits, e |-> e]

\* the digits of the radixes 16, 8 and 2, in value order
HexDigits == Digits \o <<"a", "b", "c", "d", "e", "f">>

UpperHexDigits == Digits \o <<"A", "B", "C", "D", "E", "F">>

\* the radix a prefix letter announces, 0 if it announces none
RadixOf(c) ==
    IF c \in {"x", "X"} THEN 16
    ELSE IF c \in {"o", "O"} THEN 8
    ELSE IF c \in {"b", "B"} THEN 2
    ELSE 0

IsDigitIn(c, radix) ==
    \E i \in 1..radix : HexDigits[i] = c \/ UpperHexDigits[i] = c

DigitValIn(c, radix) ==
    (CHOOSE i \in 1..radix : HexDigits[i] = c \/ UpperHexDigits[i] = c) - 1

\* the decimal digits of the value of a sequence of digits of the radix, by
\* halves: the left half times radix^(length of the right half), plus the
\* right half
RECURSIVE RadixValue(_, _)
RadixValue(s, radix) ==
    IF s = <<>> THEN <<>>
    ELSE IF Len(s) = 1 THEN NatDigits(DigitValIn(s[1], radix))
    ELSE Add(Doubled(RadixValue(SubSeq(s, 1, Len(s) \div 2), radix),
                     Log2(radix) * (Len(s) - Len(s) \div 2)),
             RadixValue(SubSeq(s, Len(s) \div 2 + 1, Len(s)), radix))

\* NonDecimalIntegerLiteral: 0x, 0o or 0b and at least one digit of the radix
IsRadixLiteral(val) ==
    /\ Len(val) >= 3
    /\ val[1] = "0"
    /\ RadixOf(val[2]) # 0
    /\ \A i \in 3..Len(val) : IsDigitIn(val[i], RadixOf(val[2]))

RadixLiteral(val) == Rounded(1, RadixValue(Drop(val, 2), RadixOf(val[2])), 0)

\* StrUnsignedDecimalLiteral: digits [. [digits]] [exp] or . digits [exp]
DecimalLiteral(sign, int, frac, tail) ==
    IF Len(int) + Len(frac) >= 1 /\ ExponentOk(tail)
    THEN Rounded(sign, DigitValues(int \o frac), ExponentValue(tail) - Len(frac))
    ELSE NaN

\* Number(val) on a trimmed, non-empty string (line 78): the StringToNumber
\* grammar, a signed decimal literal or Infinity, or an unsigned literal of
\* radix 16, 8 or 2.  The result is tagged "finite", "infinite" or "nan".
ToNumber(val) ==
    IF Unsigned(val) = InfinityText
    THEN [kind |-> "infinite", neg |-> SignOf(val) < 0, digits |-> <<>>, e |-> 0]
    ELSE IF IsRadixLiteral(val) THEN RadixLiteral(val)
    ELSE DecimalLiteral(SignOf(val),
                        IntDigits(Unsigned(val)),
                        FracDigits(AfterInt(Unsigned(val))),
                        AfterFrac(AfterInt(Unsigned(val))))

\* Number.isFinite(num) ? num : null, line 79
FiniteOrNull(num) ==
    IF num.kind = "finite" THEN Num(num.neg, num.digits, num.e) ELSE Null

\* parseNumber(id), lines 73-80, on the value of the input element
parseNumber(value) ==
    IF Trim(value) = <<>> THEN Null ELSE FiniteOrNull(ToNumber(Trim(value)))

(***************************************************************************)
(* The page state                                                          *)
(***************************************************************************)

VARIABLES
    busProfiles,    \* the registry object of line 25
    busType,        \* busTypeSelect.value
    fields,         \* the value of each measurement input, by element id
    acMode,         \* whether document.body carries the class "ac-mode"
    voltageLabel,   \* steadyVoltageUnit and steadyVoltageHint text
    overallStatus,  \* classes, label text and pill text of #overallStatus
    summary,        \* #summaryBlock: its hidden class and the summary cells
    checklist,      \* #checklist: its empty class, placeholder and rows
    lastEvent,      \* the event whose handler ran last
    threw           \* whether that handler ended in an uncaught TypeError

vars == <<busProfiles, busType, fields, acMode, voltageLabel, overallStatus,
          summary, checklist, lastEvent, threw>>

\* the ids read at lines 88-94
FieldIds == {"steadyVoltage", "steadyFrequency", "ripple", "uvDipPercent",
             "uvDipDuration", "ovSurgePercent", "ovSurgeDuration"}

\* the object literal of lines 25-50; frequencyRange: null is <<>>
BusProfileTable ==
    [k \in {"28vdc", "115vac400"} |->
        IF k = "28vdc"
        THEN [label              |-> "28 VDC Main Bus (Illustrative)",
              nominalVoltage     |-> 28,
              steadyVoltageRange |-> <<22, 29>>,
              ripplePercentMax   |-> 5,
              uvDipPercentMax    |-> 20,
              uvDurationMaxMs    |-> 50,
              ovSurgePercentMax  |-> 20,
              ovDurationMaxMs    |-> 50,
              hasFrequency       |-> FALSE,
              frequencyRange     |-> <<>>]
        ELSE [label              |-> "115 VAC, 400 Hz (Illustrative)",
              nominalVoltage     |-> 115,
              steadyVoltageRange |-> <<108, 118>>,
              ripplePercentMax   |-> 5,
              uvDipPercentMax    |-> 20,
              uvDurationMaxMs    |-> 50,
              ovSurgePercentMax  |-> 20,
              ovDurationMaxMs    |-> 50,
              hasFrequency       |-> TRUE,
              frequencyRange     |-> <<395, 405>>]]

\* property names every object literal inherits from Object.prototype
ObjectPrototypeKeys ==
    {"constructor", "toString", "toLocaleString", "valueOf", "hasOwnProperty",
     "isPrototypeOf", "propertyIsEnumerable", "__proto__",
     "__defineGetter__", "__defineSetter__", "__lookupGetter__", "__lookupSetter__"}

\* busProfiles[busKey], lines 54 and 86: an own property is the profile; a
\* name found on Object.prototype is an object none of whose profile fields
\* is defined; any other name is undefined.
Lookup(registry, busKey) ==
    IF busKey \in DOMAIN registry
    THEN [kind |-> "own", p |-> registry[busKey]]
    ELSE IF busKey \in ObjectPrototypeKeys
         THEN [kind |-> "inherited", p |-> <<>>]
         ELSE [kind |-> "undefined", p |-> <<>>]

\* the truth value of profile.hasFrequency (lines 57, 120, 149, 157, 260...)
\* on a profile that is not undefined
HasFrequency(profile) == profile.kind = "own" /\ profile.p.hasFrequency

(***************************************************************************)
(* The checks of runComplianceCheck, lines 96-216.  A step yields the      *)
(* CheckResults it pushes, or throws.  A detail string is kept as its      *)
(* template: the fixed message of a missing value, or "Measured/Allowed"   *)
(* for the formatted measurement.                                          *)
(***************************************************************************)

Pushed(cs) == [threw |-> FALSE, checks |-> cs]

Thrown == [threw |-> TRUE, checks |-> <<>>]

CheckResult(label, pass, detail) ==
    [label |-> label, pass |-> pass, detail |-> detail]

Measured == "Measured/Allowed"

\* line 102 with the lower bound exclusive
VoltagePass_Exclusive(steadyVoltage, range) ==
    /\ ~NumLE(steadyVoltage, range[1])
    /\ NumLE(steadyVoltage, range[2])

\* line 102
VoltagePass(steadyVoltage, range) ==
    NumGE(steadyVoltage, range[1]) /\ NumLE(steadyVoltage, range[2])

\* lines 99-117; line 101 throws when the profile is undefined (a property
\* of undefined) or inherited (destructuring undefined)
VoltageStep(profile, steadyVoltage) ==
    IF Provided(steadyVoltage)
    THEN IF profile.kind # "own"
         THEN Thrown
         ELSE Pushed(<<CheckResult("Steady-State Voltage",
                        VoltagePass(steadyVoltage, profile.p.steadyVoltageRange),
                        Measured)>>)
    ELSE Pushed(<<CheckResult("Steady-State Voltage", FALSE,
                              "No measured voltage provided.")>>)

\* line 123 with the upper bound exclusive
FrequencyPass_Exclusive(steadyFrequency, range) ==
    /\ NumGE(steadyFrequency, range[1])
    /\ ~NumGE(steadyFrequency, range[2])

\* line 123
FrequencyPass(steadyFrequency, range) ==
    NumGE(steadyFrequency, range[1]) /\ NumLE(steadyFrequency, range[2])

\* line 120 without the test of hasFrequency
FrequencyApplies_Always(profile) == profile.kind = "own"

\* whether the frequency block is entered, line 120
FrequencyApplies(profile) == HasFrequency(profile)

\* lines 119-139; line 120 throws on an undefined profile, line 122 on a
\* frequencyRange of null
FrequencyStep(profile, steadyFrequency) ==
    IF profile.kind = "undefined"
    THEN Thrown
    ELSE IF FrequencyApplies(profile)
         THEN IF Provided(steadyFrequency)
              THEN IF profile.p.frequencyRange = <<>>
                   THEN Thrown
                   ELSE Pushed(<<CheckResult("Steady-State Frequency",
                                  FrequencyPass(steadyFrequency, profile.p.frequencyRange),
                                  Measured)>>)
              ELSE Pushed(<<CheckResult("Steady-State Frequency", FALSE,
                              "No measured frequency provided for AC bus.")>>)
         ELSE Pushed(<<>>)

\* lines 149-151 and 157-159
RippleLabel(profile) ==
    IF HasFrequency(profile) THEN "AC Distortion / THD" ELSE "DC Ripple Voltage"

\* line 144
RipplePass(ripple, maxRipple) == NumLE(ripple, maxRipple)

\* lines 141-163; on an inherited object maxRipple is undefined and line 147
\* throws
RippleStep(profile, ripple) ==
    IF Provided(ripple)
    THEN IF profile.kind # "own"
         THEN Thrown
         ELSE Pushed(<<CheckResult(RippleLabel(profile),
                        RipplePass(ripple, profile.p.ripplePercentMax),
                        Measured)>>)
    ELSE Pushed(<<CheckResult(RippleLabel(profile), FALSE,
                              "No ripple / distortion value provided.")>>)

\* lines 167-169
UndervoltagePass(p, uvDipPercent, uvDipDuration) ==
    LET passPercent  == NumLE(uvDipPercent, p.uvDipPercentMax)
        passDuration == NumLE(uvDipDuration, p.uvDurationMaxMs)
    IN  passPercent /\ passDuration

\* lines 165-188 with || for && at line 166: a missing value compares as 0
\* and line 170 or 172 then calls toFixed on null
UndervoltageStep_Either(profile, uvDipPercent, uvDipDuration) ==
    IF Provided(uvDipPercent) \/ Provided(uvDipDuration)
    THEN IF profile.kind # "own" \/ ~Provided(uvDipPercent) \/ ~Provided(uvDipDuration)
         THEN Thrown
         ELSE Pushed(<<CheckResult("Transient Undervoltage",
                        UndervoltagePass(profile.p, uvDipPercent, uvDipDuration),
                        Measured)>>)
    ELSE Pushed(<<CheckResult("Transient Undervoltage", FALSE,
                   "Undervoltage dip percent and/or duration not provided.")>>)

\* lines 165-188; on an inherited object line 174 throws
UndervoltageStep(profile, uvDipPercent, uvDipDuration) ==
    IF Provided(uvDipPercent) /\ Provided(uvDipDuration)
    THEN IF profile.kind # "own"
         THEN Thrown
         ELSE Pushed(<<CheckResult("Transient Undervoltage",
                        UndervoltagePass(profile.p, uvDipPercent, uvDipDuration),
                        Measured)>>)
    ELSE Pushed(<<CheckResult("Transient Undervoltage", FALSE,
                   "Undervoltage dip percent and/or duration not provided.")>>)

\* line 194 with || for &&
OvervoltagePass_Either(p, ovSurgePercent, ovSurgeDuration) ==
    \/ NumLE(ovSurgePercent, p.ovSurgePercentMax)
    \/ NumLE(ovSurgeDuration, p.ovDurationMaxMs)

\* line 194 without passPercent
OvervoltagePass_DurationOnly(p, ovSurgePercent, ovSurgeDuration) ==
    NumLE(ovSurgeDuration, p.ovDurationMaxMs)

\* lines 192-194
OvervoltagePass(p, ovSurgePercent, ovSurgeDuration) ==
    LET passPercent  == NumLE(ovSurgePercent, p.ovSurgePercentMax)
        passDuration == NumLE(ovSurgeDuration, p.ovDurationMaxMs)
    IN  passPercent /\ passDuration

\* lines 190-213; on an inherited object line 199 throws
OvervoltageStep(profile, ovSurgePercent, ovSurgeDuration) ==
    IF Provided(ovSurgePercent) /\ Provided(ovSurgeDuration)
    THEN IF profile.kind # "own"
         THEN Thrown
         ELSE Pushed(<<CheckResult("Transient Overvoltage",
                        OvervoltagePass(profile.p, ovSurgePercent, ovSurgeDuration),
                        Measured)>>)
    ELSE Pushed(<<CheckResult("Transient Overvoltage", FALSE,
                   "Overvoltage surge percent and/or duration not provided.")>>)

\* line 216 with some for every
OverallPass_Some(checks) == \E i \in 1..Len(checks) : checks[i].pass

\* line 216: checks.every((c) => c.pass)
OverallPass(checks) == \A i \in 1..Len(checks) : checks[i].pass

\* lines 88-94: the seven parsed measurements; line 75 gives null for an id
\* with no element
Measurements(form) ==
    [id \in FieldIds |->
        IF id \in DOMAIN form THEN parseNumber(form[id]) ELSE Null]

\* lines 98-213 in order
Steps(profile, v) ==
    <<VoltageStep(profile, v["steadyVoltage"]),
      FrequencyStep(profile, v["steadyFrequency"]),
      RippleStep(profile, v["ripple"]),
      UndervoltageStep(profile, v["uvDipPercent"], v["uvDipDuration"]),
      OvervoltageStep(profile, v["ovSurgePercent"], v["ovSurgeDuration"])>>

\* the checks array once every step has pushed, or a throw if a step threw
RunSteps(steps) ==
    IF \E i \in 1..Len(steps) : steps[i].threw
    THEN Thrown
    ELSE Pushed(steps[1].checks \o steps[2].checks \o steps[3].checks
                \o steps[4].checks \o steps[5].checks)

\* renderOverallStatus's argument, line 216
Report(run) ==
    [threw       |-> run.threw,
     checks      |-> run.checks,
     overallPass |-> ~run.threw /\ OverallPass(run.checks)]

\* lines 85-216: the checks array and overallPass, or a throw
Evaluate(registry, busKey, form) ==
    Report(RunSteps(Steps(Lookup(registry, busKey), Measurements(form))))

(***************************************************************************)
(* Rendering, lines 232-329                                                *)
(***************************************************************************)

StatusClasses == {"overall-status--idle", "overall-status--pass", "overall-status--fail"}

\* renderOverallStatus(overallPass), lines 232-253
renderOverallStatus(status, overallPass) ==
    LET cleared == status.classes \ StatusClasses
    IN  IF overallPass
        THEN [classes |-> cleared \cup {"overall-status--pass"},
              label   |-> "Result: All checked parameters are within illustrative limits.",
              pill    |-> "PASS (Demo)"]
        ELSE [classes |-> cleared \cup {"overall-status--fail"},
              label   |-> "Result: One or more parameters exceed illustrative limits.",
              pill    |-> "NOT COMPLIANT (Demo)"]

\* a summary cell showing a formatted measurement
Formatted == "value"

\* renderSummary(profile, values), lines 255-293, for a profile that is not
\* undefined.  An inherited object has no label (textContent = undefined
\* leaves the cell empty) and no nominalVoltage.
renderSummary(profile, values) ==
    LET unit == IF HasFrequency(profile) THEN "VAC" ELSE "VDC"
    IN  [hidden        |-> FALSE,
         busType       |-> IF profile.kind = "own" THEN profile.p.label ELSE "",
         nominal       |-> [defined |-> profile.kind = "own",
                            volts   |-> IF profile.kind = "own"
                                        THEN profile.p.nominalVoltage ELSE 0,
                            unit    |-> unit],
         steadyVoltage |-> IF Provided(values["steadyVoltage"])
                           THEN Formatted ELSE "-",
         frequency     |-> IF HasFrequency(profile) /\ Provided(values["steadyFrequency"])
                           THEN Formatted
                           ELSE IF HasFrequency(profile) THEN "Not provided" ELSE "N/A",
         ripple        |-> IF Provided(values["ripple"])
                           THEN Formatted ELSE "Not provided",
         uv            |-> IF Provided(values["uvDipPercent"])
                              /\ Provided(values["uvDipDuration"])
                           THEN Formatted ELSE "Not provided",
         ov            |-> IF Provided(values["ovSurgePercent"])
                              /\ Provided(values["ovSurgeDuration"])
                           THEN Formatted ELSE "Not provided"]

\* one div.check-item, lines 300-327
CheckRow(check) ==
    [label  |-> check.label,
     detail |-> check.detail,
     pill   |-> IF check.pass THEN "check-item__pill--pass" ELSE "check-item__pill--fail",
     text   |-> IF check.pass THEN "Within limit" ELSE "Out of limit"]

\* renderChecklist without line 297: the rows of earlier runs stay
renderChecklist_Append(list, checks) ==
    [empty       |-> FALSE,
     placeholder |-> FALSE,
     rows        |-> list.rows \o [i \in 1..Len(checks) |-> CheckRow(checks[i])]]

\* renderChecklist(checks), lines 295-329: the list is emptied, then one row
\* is appended per check
renderChecklist(list, checks) ==
    [empty       |-> FALSE,
     placeholder |-> FALSE,
     rows        |-> [i \in 1..Len(checks) |-> CheckRow(checks[i])]]

(***************************************************************************)
(* The page as loaded                                                      *)
(***************************************************************************)

\* the value of the bus-type select as loaded and after form.reset(): the
\* select is a control of the form, and its first option is the default
DefaultBusType == "28vdc"

\* the values of the seven inputs as loaded and after form.reset()
DefaultFields == [id \in FieldIds |-> <<>>]

\* the overall status as loaded: the state resetForm restores, lines 335-344
IdleStatus ==
    [classes |-> {"overall-status--idle"},
     label   |-> "Awaiting input",
     pill    |-> "No run yet"]

\* the summary block as loaded: hidden, its cells empty
HiddenSummary ==
    [hidden        |-> TRUE,
     busType       |-> "",
     nominal       |-> [defined |-> FALSE, volts |-> 0, unit |-> ""],
     steadyVoltage |-> "",
     frequency     |-> "",
     ripple        |-> "",
     uv            |-> "",
     ov            |-> ""]

\* the checklist as loaded: the state resetForm restores, lines 346-348
EmptyChecklist == [empty |-> TRUE, placeholder |-> TRUE, rows |-> <<>>]

\* the label and hint of lines 64-70
LabelFor(busKey) ==
    IF busKey = "28vdc"
    THEN [unit |-> "VDC", hint |-> "Example: 27.8 VDC on a nominal 28 V bus."]
    ELSE [unit |-> "VAC (RMS)",
          hint |-> "Example: 113.5 VAC RMS on a 115 V, 400 Hz bus."]

\* updateBusMode(), lines 52-71: what it leaves of the ac-mode class and the
\* label, or a throw at line 57 when the profile is undefined
updateBusMode(registry, busKey, ac, label) ==
    LET profile == Lookup(registry, busKey)
    IN  IF profile.kind = "undefined"
        THEN [threw |-> TRUE, acMode |-> ac, voltageLabel |-> label]
        ELSE [threw        |-> FALSE,
              acMode       |-> HasFrequency(profile),
              voltageLabel |-> LabelFor(busKey)]

\* the page once the DOMContentLoaded listener has run (lines 3-361) with the
\* form holding `form`
Loaded(form) ==
    LET mode == updateBusMode(BusProfileTable, DefaultBusType, FALSE,
                              [unit |-> "", hint |-> ""])
    IN  /\ busProfiles = BusProfileTable
        /\ busType = DefaultBusType
        /\ fields = form
        /\ acMode = mode.acMode
        /\ voltageLabel = mode.voltageLabel
        /\ overallStatus = IdleStatus
        /\ summary = HiddenSummary
        /\ checklist = EmptyChecklist
        /\ lastEvent = "load"
        /\ threw = mode.threw

Init == Loaded(DefaultFields)

(***************************************************************************)
(* Event handlers                                                          *)
(***************************************************************************)

\* the values the bus-type select may be given
BusIds == {"28vdc", "115vac400", "28VDC", "constructor"}

\* the user edits the inputs.  No handler is bound to an input event, so all
\* the edits made between two events are one step, to one of `forms`.
Edit(forms) ==
    \E form \in forms :
        /\ form # fields
        /\ fields' = form
        /\ lastEvent' = "input"
        /\ threw' = FALSE
        /\ UNCHANGED <<busProfiles, busType, acMode, voltageLabel, overallStatus,
                       summary, checklist>>

\* "change" on the select (line 354): updateBusMode
ChangeBus ==
    \E busKey \in BusIds \ {busType} :
        LET mode == updateBusMode(busProfiles, busKey, acMode, voltageLabel)
        IN  /\ busType' = busKey
            /\ acMode' = mode.acMode
            /\ voltageLabel' = mode.voltageLabel
            /\ lastEvent' = "change"
            /\ threw' = mode.threw
            /\ UNCHANGED <<busProfiles, fields, overallStatus, summary, checklist>>

\* lines 218-229: the three render calls, which a throw among lines 100-213
\* never reaches
Render(report, profile, values) ==
    IF report.threw
    THEN UNCHANGED <<overallStatus, summary, checklist>>
    ELSE /\ overallStatus' = renderOverallStatus(overallStatus, report.overallPass)
         /\ summary' = renderSummary(profile, values)
         /\ checklist' = renderChecklist(checklist, report.checks)

\* "submit" on the form (line 355): runComplianceCheck, lines 82-230
Submit ==
    /\ lastEvent' = "submit"
    /\ threw' = Evaluate(busProfiles, busType, fields).threw
    /\ Render(Evaluate(busProfiles, busType, fields),
              Lookup(busProfiles, busType), Measurements(fields))
    /\ UNCHANGED <<busProfiles, busType, fields, acMode, voltageLabel>>

\* lines 335-344 without the classList.remove of lines 335-338
IdleAgain_KeepsResult(status) ==
    [classes |-> status.classes \cup {"overall-status--idle"},
     label   |-> "Awaiting input",
     pill    |-> "No run yet"]

\* the overall status after lines 335-344
IdleAgain(status) ==
    [classes |-> (status.classes \ {"overall-status--pass", "overall-status--fail"})
                    \cup {"overall-status--idle"},
     label   |-> "Awaiting input",
     pill    |-> "No run yet"]

\* the summary block after line 350: hidden, its cells as they were
HideSummary(block) == [block EXCEPT !.hidden = TRUE]

\* "click" on the reset button (line 356): resetForm, lines 331-351
Reset ==
    LET mode == updateBusMode(busProfiles, DefaultBusType, acMode, voltageLabel)
    IN  /\ busType' = DefaultBusType
        /\ fields' = DefaultFields
        /\ acMode' = mode.acMode
        /\ voltageLabel' = mode.voltageLabel
        /\ lastEvent' = "reset"
        /\ threw' = mode.threw
        /\ IF mode.threw
           THEN UNCHANGED <<overallStatus, summary, checklist>>
           ELSE /\ overallStatus' = IdleAgain(overallStatus)
                /\ summary' = HideSummary(summary)
                /\ checklist' = EmptyChecklist
        /\ UNCHANGED busProfiles

(***************************************************************************)
(* What the user types.  A measurement is written in hundredths: 2780 is   *)
(* typed as 27.8, and a negative entry of a form leaves the input empty.   *)
(***************************************************************************)

\* the half-width, in hundredths, of the grid typed around each limit
Delta == 1

RECURSIVE IntText(_)
IntText(n) ==
    IF n < 10 THEN <<Digits[n + 1]>>
    ELSE IntText(n \div 10) \o <<Digits[(n % 10) + 1]>>

\* the decimal text of h hundredths, h >= 0, without trailing zeros
DecText(h) ==
    LET whole == h \div 100
        frac  == h % 100
    IN  IF frac = 0 THEN IntText(whole)
        ELSE IF frac % 10 = 0
             THEN IntText(whole) \o <<".", Digits[(frac \div 10) + 1]>>
             ELSE IntText(whole) \o <<".", Digits[(frac \div 10) + 1],
                                      Digits[(frac % 10) + 1]>>

\* the texts of a form given in hundredths
FormOf(h) ==
    [id \in FieldIds |-> IF h[id] < 0 THEN <<>> ELSE DecText(h[id])]

\* the hundredths within Delta of a limit given in units
Around(limit) == (100 * limit - Delta) .. (100 * limit + Delta)

\* the limit and the hundredths up to Delta above it
From(limit) == (100 * limit) .. (100 * limit + Delta)

\* the form of the spec's first example (28 VDC) and of its second (115 VAC)
Example28 ==
    [steadyVoltage |-> 2780, steadyFrequency |-> -1, ripple |-> 300,
     uvDipPercent |-> 1000, uvDipDuration |-> 2000,
     ovSurgePercent |-> 1000, ovSurgeDuration |-> 2000]

Example115 ==
    [steadyVoltage |-> 11350, steadyFrequency |-> 40200, ripple |-> 400,
     uvDipPercent |-> 1500, uvDipDuration |-> 4000,
     ovSurgePercent |-> 2500, ovSurgeDuration |-> 4000]

\* a form with all seven provided that passes on the AC bus, and one that
\* passes on the DC bus
Full115 == [Example115 EXCEPT !["ovSurgePercent"] = 1000]

Full28 == [Full115 EXCEPT !["steadyVoltage"] = 2780]

AllOmitted == [id \in FieldIds |-> -1]

\* other spellings of a number, and texts that state none: the text, whether
\* it states a number, and the hundredths it states.  Number() reads 1e400
\* as Infinity, which is no measurement, and twenty 9s after 21. as 22, the
\* double nearest.
OddEntries ==
    {<<<<" ", "2", "2", " ">>, TRUE, 2200>>,
     <<<<"2", ".", "2", "e", "1">>, TRUE, 2200>>,
     <<<<"+", "2", "9", ".", "0", "0">>, TRUE, 2900>>,
     <<<<"1", "1", "8", ".">>, TRUE, 11800>>,
     <<<<"2", "9", "0", "1", "e", "-", "2">>, TRUE, 2901>>,
     <<<<"-", "5">>, TRUE, -500>>,
     <<<<"0", "x", "1", "D">>, TRUE, 2900>>,
     <<<<"\t", "1", "0", "8", "\n">>, TRUE, 10800>>,
     <<<<LineTabulation, "2", "2">>, TRUE, 2200>>,
     <<<<"1", "1", "8", NoBreakSpace>>, TRUE, 11800>>,
     <<<<"U+3000", "2", "9", ZeroWidthNoBreakSpace>>, TRUE, 2900>>,
     <<<<"2", "1", ".", "9", "9", "9", "9", "9", "9", "9", "9", "9", "9",
         "9", "9", "9", "9", "9", "9", "9", "9", "9", "9">>, TRUE, 2200>>,
     <<<<"1", "e", "4", "0", "0">>, FALSE, 0>>,
     <<<<" ", " ">>, FALSE, 0>>,
     <<<<"2", "8", "V">>, FALSE, 0>>,
     <<<<"2", "2", ",", "5">>, FALSE, 0>>,
     <<<<"4", "O", "2">>, FALSE, 0>>,
     <<InfinityText, FALSE, 0>>}

OddTexts == {entry[1] : entry \in OddEntries}

\* the forms of Spec: every way of spoiling the checks of the second example
\* (the other bus's voltage, no frequency, no ripple, no dip percent, a
\* surge of 25 %), the two examples, and each full form less one field
MainForms ==
    {FormOf(AllOmitted), FormOf(Example28), FormOf(Example115)}
    \cup {FormOf([Full115 EXCEPT !["steadyVoltage"] = v, !["steadyFrequency"] = f,
                                 !["ripple"] = r, !["uvDipPercent"] = u,
                                 !["ovSurgePercent"] = o]) :
            v \in {2780, 11350}, f \in {40200, -1}, r \in {400, -1},
            u \in {1500, -1}, o \in {1000, 2500}}
    \cup {FormOf([full EXCEPT ![id] = -1]) :
            full \in {Full28, Full115}, id \in FieldIds}

\* the forms of SpecVoltage: a full form with the voltage on the grid around
\* the four voltage limits, or spelled oddly
VoltageForms ==
    {FormOf(AllOmitted)}
    \cup {FormOf([Full115 EXCEPT !["steadyVoltage"] = v]) :
            v \in {-1} \cup Around(22) \cup Around(29) \cup Around(108) \cup Around(118)}
    \cup {[FormOf(Full115) EXCEPT !["steadyVoltage"] = text] : text \in OddTexts}

\* the forms of SpecFrequency: the frequency on the grid around the two
\* frequency limits, with the voltage of either bus
FrequencyForms ==
    {FormOf(AllOmitted)}
    \cup {FormOf([Full115 EXCEPT !["steadyFrequency"] = f, !["steadyVoltage"] = v,
                                 !["ripple"] = r]) :
            f \in {-1, 40200} \cup Around(395) \cup Around(405),
            v \in {2780, 11350}, r \in {400, 501}}
    \cup {[FormOf(Full28) EXCEPT !["steadyFrequency"] = text] : text \in OddTexts}

\* the forms of SpecTransient: the percent and the duration of one transient
\* on the grid around their limits, the other transient passing or failing
TransientForms ==
    {FormOf(AllOmitted)}
    \cup {FormOf([Full115 EXCEPT !["uvDipPercent"] = p, !["uvDipDuration"] = d,
                                 !["ovSurgePercent"] = o]) :
            p \in {-1} \cup Around(20), d \in {-1} \cup From(50),
            o \in {1000, 2500}}
    \cup {FormOf([Full115 EXCEPT !["ovSurgePercent"] = p, !["ovSurgeDuration"] = d,
                                 !["uvDipPercent"] = u]) :
            p \in {-1} \cup Around(20), d \in {-1} \cup From(50),
            u \in {1500, 2500}}

(***************************************************************************)
(* Specifications: the handlers, with the user typing the forms of one set *)
(***************************************************************************)

EditMain == Edit(MainForms)

Next == EditMain \/ ChangeBus \/ Submit \/ Reset

Spec == Init /\ [][Next]_vars

EditVoltage == Edit(VoltageForms)

NextVoltage == EditVoltage \/ ChangeBus \/ Submit \/ Reset

SpecVoltage == Init /\ [][NextVoltage]_vars

EditFrequency == Edit(FrequencyForms)

NextFrequency == EditFrequency \/ ChangeBus \/ Submit \/ Reset

SpecFrequency == Init /\ [][NextFrequency]_vars

EditTransient == Edit(TransientForms)

NextTransient == EditTransient \/ ChangeBus \/ Submit \/ Reset

SpecTransient == Init /\ [][NextTransient]_vars

(***************************************************************************)
(* What a form states, read off the typed text without the script's        *)
(* parsing: the hundredths each text was typed from.                       *)
(***************************************************************************)

\* every hundredths value a form is typed from
TypedValues ==
    {Example28[id] : id \in FieldIds} \cup {Example115[id] : id \in FieldIds}
    \cup Around(22) \cup Around(29) \cup Around(108) \cup Around(118)
    \cup Around(395) \cup Around(405) \cup Around(20) \cup From(50)
    \cup {501, 1000, 2500}

\* each text with whether it states a number and the hundredths it states
Catalogue ==
    OddEntries \cup {<<<<>>, FALSE, 0>>}
    \cup {<<DecText(h), TRUE, h>> : h \in {v \in TypedValues : v >= 0}}

Meaning(text) == CHOOSE entry \in Catalogue : entry[1] = text

\* whether the input holds a number, and that number in hundredths
Given(id) == Meaning(fields[id])[2]

Hundredths(id) == Meaning(fields[id])[3]

KnownBus == busType \in {"28vdc", "115vac400"}

IsAC == busType = "115vac400"

\* the limits of the selected profile as the registry literal states them
Limit == BusProfileTable[busType]

\* the page shows the outcome of submitting the form and bus type it holds
Fresh == lastEvent = "submit"

Rendered == Fresh /\ ~threw

PassPill == "check-item__pill--pass"

FailPill == "check-item__pill--fail"

Rows == checklist.rows

RowsLabelled(label) == {i \in 1..Len(Rows) : Rows[i].label = label}

\* the check with this label is in the report once, and passes / fails
Passes(label) ==
    /\ Cardinality(RowsLabelled(label)) = 1
    /\ \A i \in RowsLabelled(label) : Rows[i].pill = PassPill

Fails(label) ==
    /\ Cardinality(RowsLabelled(label)) = 1
    /\ \A i \in RowsLabelled(label) : Rows[i].pill = FailPill

ShowsPass == "overall-status--pass" \in overallStatus.classes

ShowsFail == "overall-status--fail" \in overallStatus.classes

ShowsIdle == "overall-status--idle" \in overallStatus.classes

\* the spec's rule for each check, on the hundredths typed
VoltageInRange ==
    /\ Given("steadyVoltage")
    /\ 100 * Limit.steadyVoltageRange[1] <= Hundredths("steadyVoltage")
    /\ Hundredths("steadyVoltage") <= 100 * Limit.steadyVoltageRange[2]

FrequencyInRange ==
    /\ Given("steadyFrequency")
    /\ 100 * Limit.frequencyRange[1] <= Hundredths("steadyFrequency")
    /\ Hundredths("steadyFrequency") <= 100 * Limit.frequencyRange[2]

RippleWithin ==
    /\ Given("ripple")
    /\ Hundredths("ripple") <= 100 * Limit.ripplePercentMax

UndervoltageWithin ==
    /\ Given("uvDipPercent") /\ Given("uvDipDuration")
    /\ Hundredths("uvDipPercent") <= 100 * Limit.uvDipPercentMax
    /\ Hundredths("uvDipDuration") <= 100 * Limit.uvDurationMaxMs

OvervoltageWithin ==
    /\ Given("ovSurgePercent") /\ Given("ovSurgeDuration")
    /\ Hundredths("ovSurgePercent") <= 100 * Limit.ovSurgePercentMax
    /\ Hundredths("ovSurgeDuration") <= 100 * Limit.ovDurationMaxMs

(***************************************************************************)
(* Claims                                                                  *)
(***************************************************************************)

AllRowsPass == \A i \in 1..Len(Rows) : Rows[i].pill = PassPill

\* C1: whenever a report is on the page, its overall status is pass if and
\* only if every check row of that report passes, and fail otherwise; the
\* frequency row counts exactly when it is among the rows.
C1_OverallIffAllPass ==
    ~checklist.placeholder =>
        /\ ShowsPass <=> AllRowsPass
        /\ ShowsFail <=> ~AllRowsPass

\* C1 happens: an AC report of five passing rows shown as PASS
C1_Witness ==
    /\ Rendered /\ IsAC
    /\ Len(Rows) = 5 /\ AllRowsPass /\ ShowsPass

\* the field left out, when exactly one of the seven is
OnlyOmitted(id) ==
    /\ ~Given(id)
    /\ \A other \in FieldIds \ {id} : Given(other)

\* the label of the check a field belongs to, on the selected bus
CheckOf(id) ==
    CASE id = "steadyVoltage" -> "Steady-State Voltage"
      [] id = "steadyFrequency" -> "Steady-State Frequency"
      [] id = "ripple" -> IF IsAC THEN "AC Distortion / THD" ELSE "DC Ripple Voltage"
      [] id \in {"uvDipPercent", "uvDipDuration"} -> "Transient Undervoltage"
      [] OTHER -> "Transient Overvoltage"

\* C2 as stated: submitting a form with any one of the seven fields left out
\* never throws and yields a failing check for that field.
C2_AnyOmittedFieldFails ==
    \A id \in FieldIds :
        (Fresh /\ KnownBus /\ OnlyOmitted(id)) =>
            ~threw /\ Fails(CheckOf(id))

\* C2, amended: submitting a form with exactly one of the seven fields left
\* out never throws; the check of that field is in the report and fails,
\* except that an omitted frequency on a profile without frequency has no
\* check; every other check is still in the report, evaluated on its
\* measured values.
C2_OmittedFieldFails ==
    \A id \in FieldIds :
        (Fresh /\ KnownBus /\ OnlyOmitted(id)) =>
            /\ ~threw
            /\ Len(Rows) = IF IsAC THEN 5 ELSE 4
            /\ (id # "steadyFrequency" \/ IsAC) => Fails(CheckOf(id))
            /\ (id = "steadyFrequency" /\ ~IsAC) => RowsLabelled(CheckOf(id)) = {}
            /\ \A i \in 1..Len(Rows) :
                  Rows[i].label # CheckOf(id) => Rows[i].detail = Measured

\* C2 happens: the dip duration alone is left out on the AC bus, its check
\* fails and the other four are reported
C2_Witness ==
    /\ Fresh /\ IsAC /\ OnlyOmitted("uvDipDuration")
    /\ Fails("Transient Undervoltage")
    /\ Len(Rows) = 5

\* C3: the frequency check is in the report exactly on the AC bus, where it
\* passes iff a frequency was given within the range, bounds included.  On
\* the DC bus no row is a frequency check, and the four rows and the overall
\* status are those the other six fields decide, whatever the frequency
\* input holds.
C3_FrequencyOnlyOnAC ==
    (Fresh /\ KnownBus) =>
        /\ ~threw
        /\ IsAC => /\ Rows[2].label = "Steady-State Frequency"
                   /\ Passes("Steady-State Frequency") <=> FrequencyInRange
                   /\ Fails("Steady-State Frequency") <=> ~FrequencyInRange
        /\ ~IsAC => /\ RowsLabelled("Steady-State Frequency") = {}
                    /\ Len(Rows) = 4
                    /\ Passes("Steady-State Voltage") <=> VoltageInRange
                    /\ Passes("DC Ripple Voltage") <=> RippleWithin
                    /\ Passes("Transient Undervoltage") <=> UndervoltageWithin
                    /\ Passes("Transient Overvoltage") <=> OvervoltageWithin
                    /\ ShowsPass <=> (VoltageInRange /\ RippleWithin
                                      /\ UndervoltageWithin /\ OvervoltageWithin)

\* C3 happens: on the DC bus a form whose frequency is out of range is
\* reported as four passing rows and PASS
C3_Witness ==
    /\ Rendered /\ busType = "28vdc"
    /\ Given("steadyFrequency") /\ Hundredths("steadyFrequency") = 39499
    /\ Len(Rows) = 4 /\ ShowsPass

\* C4: for either profile and every voltage given, the steady-state voltage
\* check passes iff min <= v <= max: it passes at min and at max and fails
\* one hundredth below min and one hundredth above max.
C4_VoltageRangeInclusive ==
    (Fresh /\ KnownBus /\ Given("steadyVoltage")) =>
        /\ ~threw
        /\ Rows[1].label = "Steady-State Voltage"
        /\ Passes("Steady-State Voltage") <=> VoltageInRange
        /\ Fails("Steady-State Voltage") <=> ~VoltageInRange

\* C4 happens: on the AC bus 118.01 V, one hundredth above max, fails
C4_Witness ==
    /\ Rendered /\ IsAC
    /\ Given("steadyVoltage") /\ Hundredths("steadyVoltage") = 11801
    /\ Fails("Steady-State Voltage")

\* C5: on either profile each transient check passes iff its percent and its
\* duration were both given and each is at most its own limit; the
\* undervoltage check is decided by the undervoltage inputs and limits, the
\* overvoltage check by the overvoltage ones.
C5_TransientBothLimits ==
    (Fresh /\ KnownBus) =>
        /\ ~threw
        /\ Passes("Transient Undervoltage") <=> UndervoltageWithin
        /\ Fails("Transient Undervoltage") <=> ~UndervoltageWithin
        /\ Passes("Transient Overvoltage") <=> OvervoltageWithin
        /\ Fails("Transient Overvoltage") <=> ~OvervoltageWithin

\* C5 happens: a surge at its percent limit but one hundredth over its
\* duration limit fails, while the dip beside it passes
C5_Witness ==
    /\ Rendered /\ KnownBus
    /\ Given("ovSurgePercent") /\ Hundredths("ovSurgePercent") = 2000
    /\ Given("ovSurgeDuration") /\ Hundredths("ovSurgeDuration") = 5001
    /\ Fails("Transient Overvoltage")
    /\ Passes("Transient Undervoltage")

OnExample28 == Fresh /\ busType = "28vdc" /\ fields = FormOf(Example28)

\* C6 as stated: the first example yields five checks, all passing, and PASS
C6_FiveChecksPass ==
    OnExample28 =>
        /\ ~threw
        /\ Len(Rows) = 5 /\ AllRowsPass
        /\ ShowsPass /\ overallStatus.pill = "PASS (Demo)"

\* C6, amended: the first example (profile 28vdc, 27.8 V, ripple 3, dip
\* 10 % for 20 ms, surge 10 % for 20 ms, no frequency) yields the four checks
\* of a DC report, voltage, ripple, undervoltage and overvoltage, all
\* passing, and the overall result PASS.
C6_FourChecksPass ==
    OnExample28 =>
        /\ ~threw
        /\ Len(Rows) = 4
        /\ Passes("Steady-State Voltage") /\ Passes("DC Ripple Voltage")
        /\ Passes("Transient Undervoltage") /\ Passes("Transient Overvoltage")
        /\ ShowsPass /\ overallStatus.pill = "PASS (Demo)"

\* C6 happens: the first example has been submitted on the 28vdc bus
C6_Witness == OnExample28 /\ ~threw /\ ~checklist.placeholder

OnExample115 == Fresh /\ busType = "115vac400" /\ fields = FormOf(Example115)

\* C7: the second example (profile 115vac400, 113.5 V, 402 Hz, distortion 4,
\* dip 15 % for 40 ms, surge 25 % for 40 ms) yields five checks of which the
\* overvoltage check fails and the other four pass, and the overall result
\* NOT COMPLIANT.
C7_OvervoltageFails ==
    OnExample115 =>
        /\ ~threw
        /\ Len(Rows) = 5
        /\ Fails("Transient Overvoltage")
        /\ Passes("Steady-State Voltage") /\ Passes("Steady-State Frequency")
        /\ Passes("AC Distortion / THD") /\ Passes("Transient Undervoltage")
        /\ ShowsFail /\ ~ShowsPass
        /\ overallStatus.pill = "NOT COMPLIANT (Demo)"

\* C7 happens: the second example has been submitted on the 115vac400 bus
C7_Witness == OnExample115 /\ ~threw /\ ~checklist.placeholder

\* C8: a submit while the bus type is no key of the registry fails, and
\* leaves the overall status, the summary and the checklist as they were.
C8_UnknownBusRendersNothing ==
    [][(lastEvent' = "submit" /\ busType \notin DOMAIN BusProfileTable) =>
          /\ threw'
          /\ UNCHANGED <<overallStatus, summary, checklist>>]_vars

\* the rows the spec's rules give for the form and bus type on the page
RuleRows ==
    LET row(label, ok) == [label |-> label,
                           pill  |-> IF ok THEN PassPill ELSE FailPill]
    IN  <<row("Steady-State Voltage", VoltageInRange)>>
        \o (IF IsAC THEN <<row("Steady-State Frequency", FrequencyInRange)>> ELSE <<>>)
        \o <<row(IF IsAC THEN "AC Distortion / THD" ELSE "DC Ripple Voltage", RippleWithin),
             row("Transient Undervoltage", UndervoltageWithin),
             row("Transient Overvoltage", OvervoltageWithin)>>

ShownRows == [i \in 1..Len(Rows) |-> [label |-> Rows[i].label, pill |-> Rows[i].pill]]

\* C9: whatever submits, resets and bus changes came before, a submit leaves
\* on the page exactly the report that the form and the bus type decide: the
\* same rows in the same order with the same outcomes and the same overall
\* status, none left over from an earlier run; and the registry is never
\* changed.
C9_ReportDependsOnInputsOnly ==
    /\ busProfiles = BusProfileTable
    /\ (Fresh /\ KnownBus) =>
          /\ ~threw
          /\ ShownRows = RuleRows
          /\ ShowsPass <=> (\A i \in 1..Len(RuleRows) : RuleRows[i].pill = PassPill)
          /\ ~checklist.empty /\ ~checklist.placeholder

\* C9 happens: a failing DC report of four rows is on the page for a full
\* form, of which an AC report has five
C9_Witness ==
    /\ Rendered /\ busType = "28vdc"
    /\ fields = FormOf(Full115)
    /\ Len(Rows) = 4 /\ ShowsFail

\* the overall status carries exactly one of its three classes, and is idle
\* iff the summary is hidden iff the checklist shows its placeholder
StatusCoherent ==
    /\ Cardinality(overallStatus.classes \cap StatusClasses) = 1
    /\ ShowsIdle <=> summary.hidden
    /\ summary.hidden <=> (checklist.empty /\ checklist.placeholder)
    /\ ShowsIdle <=> Rows = <<>>

\* C10: from the idle page on, after every event the status is coherent; a
\* submit on a known bus type leaves it pass or fail, a reset leaves it idle,
\* and a bus-type change leaves status, summary and checklist as they were.
C10_StatusLifecycle ==
    [][/\ StatusCoherent'
       /\ (lastEvent' = "submit" /\ busType \in DOMAIN BusProfileTable) =>
              (ShowsPass' \/ ShowsFail') /\ ~ShowsIdle'
       /\ lastEvent' = "reset" => ShowsIdle'
       /\ lastEvent' = "change" =>
              UNCHANGED <<overallStatus, summary, checklist>>]_vars

\* C10 happens: the page is idle again after a reset that followed a report
\* (the hidden summary still holds that report's bus label)
C10_Witness ==
    /\ lastEvent = "reset" /\ ShowsIdle
    /\ summary.hidden /\ summary.busType # ""

=============================================================================
